---- MODULE Spec2Model ----
(***************************************************************************)
(* Model of Source/Graph/Graph.Label.js: the retained label renderers      *)
(* Graph.Label.DOM / Graph.Label.HTML / Graph.Label.SVG, and the canvas    *)
(* renderer Graph.Label.Native.                                            *)
(*                                                                         *)
(* The document is modelled as a store of elements.  Every element has an  *)
(* identity (its index in the store), so "the same element instance" is    *)
(* equality of indices, and an element that replaces a live one has a      *)
(* different index.  An index is free again only once its element is       *)
(* unreachable (out of the document and out of this.labels).               *)
(***************************************************************************)
EXTENDS Integers, Sequences, FiniteSets, TLC

\* ---- bounds -------------------------------------------------------------
NumIds == 2          \* node ids are 1..NumIds
MaxNodes == 2        \* longest node array handed to hideLabel
MaxCoord == 2        \* largest canvas width/height tried by fitsInCanvas
MaxWte == 2          \* most wte closures ever registered on one element

Ids == 1..NumIds
\* element instances: two per id, so that a second element for an id is a
\* different instance from the first
MaxUid == 2 * NumIds
Uids == 1..MaxUid

\* ---- values -------------------------------------------------------------
Null == 0            \* JS null (document.getElementById found nothing)
Absent == -1         \* the key is not a property of this.labels
NoContainer == "false"   \* labelContainer: false, as the class declares it

\* Graph.Label.HTML.prefixes, prefixesStyles and css3Props
prefixes == <<"webkit", "moz", "o", "">>
prefixesStyles == <<"-webkit-", "-moz-", "-o-", "">>
css3Props == <<"width", "height", "top", "left", "color", "opacity">>

Range(f) == {f[x] : x \in DOMAIN f}

\* the four transition-* properties of one prefix, none written
NoTransition == [property |-> "", duration |-> "", delay |-> "", timing |-> ""]

\* the style properties prepareForAnimation writes, none written
NoStyle == [visibility |-> "", opacity |-> "",
            top |-> "", left |-> "", width |-> "", height |-> "",
            transition |-> [p \in Range(prefixesStyles) |-> NoTransition]]

\* What prepareForAnimation keeps on a label: the style properties it
\* writes, the wte closures listening on the label per event type, how many
\* wte closures were ever registered on it and which of them have run, and
\* the alpha and alphaEnd of the last call that configured it.  Untouched is
\* a label no prepareForAnimation has configured.
Untouched == [style |-> NoStyle, listeners |-> [p \in Range(prefixes) |-> {}],
              wteMade |-> 0, ran |-> {}, last |-> <<-1, -1>>]

\* an element: its id and class, where it came from, its parent, its
\* style.display and style.position, the invocations of onCreateLabel on it
\* and what held of it when the hook received it (a subset of "id", "class",
\* "attached", "cached")
Unused == [id |-> 0, cls |-> "", origin |-> "unused", parent |-> "none",
           display |-> "", position |-> "", hooks |-> 0, atHook |-> {}]

VARIABLES
  variant,          \* "HTML", "SVG" or "Native": which class was instantiated
  docHasContainer,  \* the document has an element with id config.labelContainer
  labels,           \* this.labels: id -> Absent | Null | element
  elems,            \* the elements: element -> its record (see Unused)
  labelContainer,   \* this.labelContainer: "false" | "null" | "container"
  containerDisplay, \* container.style.display
  labelsHidden,     \* this.labelsHidden
  ctx,              \* canvas.getCtx(): the draw state of the 2D context
  anim,             \* element -> what prepareForAnimation keeps on it; the
                    \* elements it never configured are not in the domain
  op                \* the last call: name, arguments, result, whether it threw
                    \* (args: the node and options of an animation or draw call)

vars == <<variant, docHasContainer, labels, elems, labelContainer,
          containerDisplay, labelsHidden, ctx, anim, op>>

\* the renderer's own state and the document, as one value; lookups counts
\* the container lookups the call under way has made so far and animHooks
\* lists its invocations of onBeforeAnimateLabel
Cur == [labels |-> labels, elems |-> elems, labelContainer |-> labelContainer,
        containerDisplay |-> containerDisplay, labelsHidden |-> labelsHidden,
        anim |-> anim, lookups |-> 0, animHooks |-> <<>>]

\* the draw state of a 2D context nothing has been written to
NewCtx == [font |-> "10px sans-serif", textAlign |-> "start", fillStyle |-> "#000000",
           strokeStyle |-> "#000000", textBaseline |-> "alphabetic"]

\* a node at rest: its alpha, position and dimensions are the same at the
\* start and at the end
RestNode(id) ==
  [id |-> id, alpha |-> 10, alphaEnd |-> 10, posStart |-> <<0, 0>>, pos |-> <<0, 0>>,
   startWidth |-> 1, endWidth |-> 1, startHeight |-> 1, endHeight |-> 1]

\* canvas.getSize() as prepareForAnimation reads it
canvasSize == [width |-> 4, height |-> 3]

NoOp == [name |-> "init", id |-> 0, arg |-> FALSE, nodes |-> {}, many |-> FALSE,
         threw |-> FALSE, ret |-> Null, hooks |-> 0, removed |-> {}, detached |-> {},
         before |-> FALSE, lookups |-> 0, animHooks |-> <<>>,
         args |-> <<>>, evt |-> "", fired |-> {}, draws |-> <<>>,
         pos |-> <<0, 0>>, size |-> <<0, 0>>]

\* ---- the document -------------------------------------------------------
\* document.getElementById(id): the element with that id that is in the
\* document (attached under the container or elsewhere), or null.
getElementById(E, id) ==
  LET found == {u \in Uids : E[u].origin # "unused" /\ E[u].id = id /\ E[u].parent # "none"}
  IN IF found = {} THEN Null ELSE CHOOSE u \in found : \A v \in found : u <= v

\* document.createElement / createElementNS: a fresh element instance, one
\* that is not in use
instancesOf(id) == {id, id + NumIds}

canCreate(E, id) == \E u \in instancesOf(id) : E[u].origin = "unused"

createElement(E, id) ==
  CHOOSE u \in instancesOf(id) :
    E[u].origin = "unused" /\ \A v \in instancesOf(id) : E[v].origin = "unused" => u <= v

\* viz.graph.hasNode(id)
hasNode(G, id) == id \in G

\* ---- Graph.Label.DOM ----------------------------------------------------
\* document.getElementById(this.viz.config.labelContainer)
lookupContainer == IF docHasContainer THEN "container" ELSE "null"

\* getLabelContainer: lazy fetcher; a falsy memo (false or null) is fetched again
getLabelContainer(R) ==
  IF R.labelContainer = "container"
    THEN [st |-> R, ret |-> "container"]
    ELSE [st |-> [R EXCEPT !.labelContainer = lookupContainer, !.lookups = @ + 1],
          ret |-> lookupContainer]

\* getLabel without the cache test: the document is asked every time
getLabel_Uncached(R, id) ==
  LET e == getElementById(R.elems, id)
  IN [st |-> [R EXCEPT !.labels[id] = e], ret |-> e]

\* getLabel: cached non-null entry, else memoize document.getElementById(id)
getLabel(R, id) ==
  IF R.labels[id] # Absent /\ R.labels[id] # Null
    THEN [st |-> R, ret |-> R.labels[id]]
    ELSE LET e == getElementById(R.elems, id)
         IN [st |-> [R EXCEPT !.labels[id] = e], ret |-> e]


\* config.onCreateLabel(tag, node) / controller.onCreateLabel(tag, node):
\* the hook itself is the caller's; the model counts its invocations per
\* element and records what the element was like when the hook received it
onCreateLabel(R, u) ==
  [R EXCEPT !.elems[u].hooks = @ + 1,
            !.elems[u].atHook =
               {f \in {"id", "class", "attached", "cached"} :
                  \/ f = "id" /\ R.elems[u].id \in Ids
                  \/ f = "class" /\ R.elems[u].cls = "node"
                  \/ f = "attached" /\ R.elems[u].parent = "container"
                  \/ f = "cached" /\ \E i \in Ids : R.labels[i] = u}]

\* container.appendChild(tag)
appendChild(R, u) == [R EXCEPT !.elems[u].parent = "container"]

\* ---- Graph.Label.HTML.getOrCreateLabel ----------------------------------
getOrCreateLabelHTML(R, id) ==
  LET g == getLabel(R, id) IN
  IF g.ret # Null THEN [st |-> g.st, ret |-> g.ret, threw |-> FALSE]
  ELSE IF getElementById(g.st.elems, id) # Null
    THEN [st |-> g.st, ret |-> getElementById(g.st.elems, id), threw |-> FALSE]
  ELSE
    LET tag == createElement(g.st.elems, id)
        R1  == [g.st EXCEPT !.elems[tag] = [Unused EXCEPT !.origin = "renderer"]]
        c   == getLabelContainer(R1)
        R2  == [c.st EXCEPT !.elems[tag].id = id]
        R3  == [R2 EXCEPT !.elems[tag].cls = "node"]
        R4  == [R3 EXCEPT !.elems[tag].position = "absolute"]
        R5  == onCreateLabel(R4, tag)
    IN IF c.ret # "container"
         \* container is null: container.appendChild raises a TypeError
         THEN [st |-> R5, ret |-> Null, threw |-> TRUE]
         ELSE [st |-> [appendChild(R5, tag) EXCEPT !.labels[id] = tag],
               ret |-> tag, threw |-> FALSE]

\* ---- Graph.Label.SVG.getOrCreateLabel -----------------------------------
getOrCreateLabelSVG(R, id) ==
  LET g == getLabel(R, id) IN
  IF g.ret # Null THEN [st |-> g.st, ret |-> g.ret, threw |-> FALSE]
  ELSE IF getElementById(g.st.elems, id) # Null
    THEN [st |-> g.st, ret |-> getElementById(g.st.elems, id), threw |-> FALSE]
  ELSE
    \* the tspan child of the text element is not part of the state
    LET tag == createElement(g.st.elems, id)
        R1  == [g.st EXCEPT !.elems[tag] = [Unused EXCEPT !.origin = "renderer"]]
        c   == getLabelContainer(R1)
        R2  == [c.st EXCEPT !.elems[tag].id = id]
        R3  == [R2 EXCEPT !.elems[tag].cls = "node"]
    IN IF c.ret # "container"
         \* container is null: container.appendChild raises before the hook runs
         THEN [st |-> R3, ret |-> Null, threw |-> TRUE]
         ELSE [st |-> [onCreateLabel(appendChild(R3, tag), tag) EXCEPT !.labels[id] = tag],
               ret |-> tag, threw |-> FALSE]

\* getOrCreateLabel with the hook call outside the creation branch
getOrCreateLabel_HookEveryCall(R, id) ==
  LET r == IF variant = "HTML" THEN getOrCreateLabelHTML(R, id) ELSE getOrCreateLabelSVG(R, id)
  IN IF ~r.threw /\ getLabel(R, id).ret # Null
       THEN [r EXCEPT !.st = onCreateLabel(r.st, r.ret)]
       ELSE r

getOrCreateLabel(R, id) ==
  IF variant = "HTML" THEN getOrCreateLabelHTML(R, id) ELSE getOrCreateLabelSVG(R, id)

\* the call would have to construct a new element
needsCreate(R, id) ==
  getLabel(R, id).ret = Null /\ getElementById(getLabel(R, id).st.elems, id) = Null

\* placeLabel(tag, node, controller): each visualization defines its own; the
\* position it gives the element is not followed, so the element is returned
\* as it is
placeLabel(R, tag) == R

\* ---- Graph.Label.DOM.plotLabel ------------------------------------------
plotLabel(R, id) ==
  LET t == getOrCreateLabel(R, id) IN
  IF t.threw THEN t
  ELSE [st |-> placeLabel(t.st, t.ret), ret |-> t.ret, threw |-> FALSE]

\* ---- Graph.Label.HTML.prepareForAnimation --------------------------------
\* An alpha is a number of tenths (10 is the opacity 1, 5 is 0.5); String(a)
\* is the text JavaScript's String gives for that number.
String(a) ==
  IF a % 10 = 0 THEN ToString(a \div 10)
  ELSE ToString(a \div 10) \o "." \o ToString(a % 10)

\* (h / 2) >> 0 for an integer h: the half is truncated towards zero
Shr0Half(h) == IF h >= 0 THEN h \div 2 ELSE -((-h) \div 2)

\* Array.prototype.join(): the items separated by commas
RECURSIVE join(_)
join(items) ==
  IF Len(items) = 0 THEN ""
  ELSE IF Len(items) = 1 THEN items[1]
  ELSE items[1] \o "," \o join(Tail(items))

\* the $.each over prefixesStyles that writes the four transition-* properties
setTransition(S, property, opt) ==
  [S EXCEPT !.transition =
     [p \in Range(prefixesStyles) |->
        [property |-> property, duration |-> ToString(opt.duration) \o "ms",
         delay |-> "200ms", timing |-> "ease-in-out"]]]

\* the label's entry in A, the labels prepareForAnimation has configured
animOf(A, u) == IF u \in DOMAIN A THEN A[u] ELSE Untouched

\* R with L as what is kept on label u
setAnim(R, u, L) ==
  [R EXCEPT !.anim = [v \in (DOMAIN @ \cup {u}) \ (IF L = Untouched THEN {u} ELSE {}) |->
                        IF v = u THEN L ELSE @[v]]]

\* wte that deregisters itself for the webkit event only
wte_OnePrefixOnly(L, k) ==
  [L EXCEPT !.listeners["webkit"] = @ \ {k},
            !.style.visibility = "hidden",
            !.ran = @ \cup {k}]

\* the closure wte number k of label L, run: it removes itself from the
\* TransitionEnd event of every prefix and hides the element
wte(L, k) ==
  [L EXCEPT !.listeners = [p \in Range(prefixes) |-> @[p] \ {k}],
            !.style.visibility = "hidden",
            !.ran = @ \cup {k}]

\* label.addEventListener(p + 'TransitionEnd', wte, false) for every prefix,
\* wte being a closure made by this call
addEventListeners(L) ==
  [L EXCEPT !.wteMade = @ + 1,
            !.listeners = [p \in Range(prefixes) |-> @[p] \cup {L.wteMade + 1}]]

\* the branch that animates alpha
animateAlpha(L, node, opt) ==
  LET L1 == [L EXCEPT !.style.visibility = "visible"]
      L2 == [L1 EXCEPT !.style.opacity = String(node.alpha)]
      L3 == [L2 EXCEPT !.style = setTransition(@, "opacity", opt)]
      L4 == [L3 EXCEPT !.style.opacity = String(node.alphaEnd),
                       !.last = <<node.alpha, node.alphaEnd>>]
  IN IF node.alphaEnd = 0 /\ node.alpha = 10 THEN addEventListeners(L4) ELSE L4

\* the branch that animates position and dimensions
animateGeometry(L, node, size, opt) ==
  LET L1 == [L EXCEPT !.style = setTransition(@, join(css3Props), opt)]
  IN [L1 EXCEPT
        !.style.top = ToString(Shr0Half(2 * node.pos[2] + size.height)) \o "px",
        !.style.left = ToString(Shr0Half(2 * node.pos[1] + size.width)) \o "px",
        !.style.width = ToString(Shr0Half(2 * node.endWidth)) \o "px",
        !.style.height = ToString(Shr0Half(2 * node.endHeight)) \o "px",
        !.last = <<node.alpha, node.alphaEnd>>]

\* position or dimensions differ between start and end
geometryChanges(node) ==
  \/ node.pos # node.posStart
  \/ node.startWidth # node.endWidth
  \/ node.startHeight # node.endHeight

\* configureLabel with an if where the source has an else if
configureLabel_BothBranches(L, node, size, opt) ==
  LET A == IF node.alpha # node.alphaEnd THEN animateAlpha(L, node, opt) ELSE L
  IN IF geometryChanges(node) THEN animateGeometry(A, node, size, opt) ELSE A

\* what prepareForAnimation writes to the label before it calls the hook
configureLabel(L, node, size, opt) ==
  IF node.alpha # node.alphaEnd THEN animateAlpha(L, node, opt)
  ELSE IF geometryChanges(node) THEN animateGeometry(L, node, size, opt)
  ELSE L

\* opt.onBeforeAnimateLabel(label, node): the hook itself is the caller's;
\* the model records the label it was handed, as it was at that moment
onBeforeAnimateLabel(R, u) ==
  [R EXCEPT !.animHooks = Append(@, [label |-> u, was |-> animOf(R.anim, u)])]

\* prepareForAnimation that calls the hook before it configures the label
prepareForAnimation_HookFirst(R, node, size, opt, useCSS3) ==
  IF ~(variant = "HTML" /\ useCSS3) THEN [st |-> R, ret |-> Null, threw |-> FALSE]
  ELSE LET t == getOrCreateLabelHTML(R, node.id) IN
       IF t.threw THEN t
       ELSE LET H == onBeforeAnimateLabel(t.st, t.ret)
            IN [st |-> setAnim(H, t.ret,
                               configureLabel(animOf(H.anim, t.ret), node, size, opt)),
                ret |-> Null, threw |-> FALSE]

\* Graph.Label.Native and Graph.Label.DOM (and so SVG): $.empty.
\* Graph.Label.HTML: returns at once unless config.Label.useCSS3.
prepareForAnimation(R, node, size, opt, useCSS3) ==
  IF ~(variant = "HTML" /\ useCSS3) THEN [st |-> R, ret |-> Null, threw |-> FALSE]
  ELSE LET t == getOrCreateLabelHTML(R, node.id) IN
       IF t.threw THEN t
       ELSE LET C == setAnim(t.st, t.ret,
                             configureLabel(animOf(t.st.anim, t.ret), node, size, opt))
            IN [st |-> onBeforeAnimateLabel(C, t.ret), ret |-> Null, threw |-> FALSE]

\* the listeners ks of label L run one after the other, in the order of
\* their registration
RECURSIVE dispatch(_, _)
dispatch(L, ks) ==
  IF ks = {} THEN L
  ELSE LET k == CHOOSE x \in ks : \A y \in ks : x <= y
       IN dispatch(wte(L, k), ks \ {k})

\* ---- Graph.Label.DOM.hideLabels -----------------------------------------
\* hideLabels without the assignment to labelsHidden
hideLabels_FlagNotRecorded(R, hide) ==
  LET c == getLabelContainer(R) IN
  IF c.ret # "container"
    THEN [st |-> c.st, ret |-> Null, threw |-> TRUE]
    ELSE [st |-> [c.st EXCEPT !.containerDisplay = IF hide THEN "none" ELSE ""],
          ret |-> Null, threw |-> FALSE]

\* hideLabels that also writes the display of every cached label
hideLabels_EachLabelToo(R, hide) ==
  LET c == getLabelContainer(R) IN
  IF c.ret # "container"
    THEN [st |-> c.st, ret |-> Null, threw |-> TRUE]
    ELSE [st |-> [c.st EXCEPT !.containerDisplay = IF hide THEN "none" ELSE "",
                              !.labelsHidden = hide,
                              !.elems = [u \in Uids |->
                                 IF \E id \in Ids : c.st.labels[id] = u
                                   THEN [@[u] EXCEPT !.display = IF hide THEN "none" ELSE ""]
                                   ELSE @[u]]],
          ret |-> Null, threw |-> FALSE]

hideLabels(R, hide) ==
  LET c == getLabelContainer(R) IN
  IF c.ret # "container"
    \* container.style on null raises a TypeError before labelsHidden is set
    THEN [st |-> c.st, ret |-> Null, threw |-> TRUE]
    ELSE [st |-> [c.st EXCEPT !.containerDisplay = IF hide THEN "none" ELSE "",
                              !.labelsHidden = hide],
          ret |-> Null, threw |-> FALSE]

\* ---- Graph.Label.DOM.disposeLabel ---------------------------------------
\* parentNode.removeChild(elem)
removeChild(E, u) == [E EXCEPT ![u].parent = "none"]

\* disposeLabel with the parentNode test negated: nothing is ever removed
disposeLabel_NoRemove(R, id) ==
  LET g == getLabel(R, id) IN
  IF g.ret # Null /\ g.st.elems[g.ret].parent = "none"
    THEN [st |-> [g.st EXCEPT !.elems = removeChild(g.st.elems, g.ret)], threw |-> FALSE]
    ELSE [st |-> g.st, threw |-> FALSE]

\* disposeLabel without the "elem &&" test: elem.parentNode on null raises
disposeLabel_NoNullTest(R, id) ==
  LET g == getLabel(R, id) IN
  IF g.ret = Null THEN [st |-> g.st, threw |-> TRUE]
  ELSE IF g.st.elems[g.ret].parent # "none"
    THEN [st |-> [g.st EXCEPT !.elems = removeChild(g.st.elems, g.ret)], threw |-> FALSE]
    ELSE [st |-> g.st, threw |-> FALSE]

disposeLabel(R, id) ==
  LET g == getLabel(R, id) IN
  IF g.ret # Null /\ g.st.elems[g.ret].parent # "none"
    THEN [st |-> [g.st EXCEPT !.elems = removeChild(g.st.elems, g.ret)], threw |-> FALSE]
    ELSE [st |-> g.st, threw |-> FALSE]

\* ---- Graph.Label.DOM.clearLabels ----------------------------------------
\* for(var id in this.labels): the keys in the order the engine enumerates
\* them; a key deleted before it is reached is not visited
\* a sweep that loses its place after a delete: the key enumerated after a
\* deleted one is skipped
RECURSIVE clearLabelsLoop_SkipAfterDelete(_, _, _, _)
clearLabelsLoop_SkipAfterDelete(order, R, force, G) ==
  IF order = <<>> THEN [st |-> R, threw |-> FALSE]
  ELSE LET id == Head(order) IN
    IF R.labels[id] = Absent THEN clearLabelsLoop_SkipAfterDelete(Tail(order), R, force, G)
    ELSE IF force \/ ~hasNode(G, id)
      THEN LET d == disposeLabel(R, id)
               rest == IF Len(order) > 1 THEN Tail(Tail(order)) ELSE <<>>
           IN IF d.threw THEN d
              ELSE clearLabelsLoop_SkipAfterDelete(rest, [d.st EXCEPT !.labels[id] = Absent],
                                                   force, G)
      ELSE clearLabelsLoop_SkipAfterDelete(Tail(order), R, force, G)

RECURSIVE clearLabelsLoop(_, _, _, _)
clearLabelsLoop(order, R, force, G) ==
  IF order = <<>> THEN [st |-> R, threw |-> FALSE]
  ELSE LET id == Head(order) IN
    IF R.labels[id] = Absent THEN clearLabelsLoop(Tail(order), R, force, G)
    ELSE IF force \/ ~hasNode(G, id)
      THEN LET d == disposeLabel(R, id)
           IN IF d.threw THEN d
              ELSE clearLabelsLoop(Tail(order), [d.st EXCEPT !.labels[id] = Absent], force, G)
      ELSE clearLabelsLoop(Tail(order), R, force, G)

keys(L) == {id \in Ids : L[id] # Absent}

\* every enumeration order of a set of keys
Orders(S) == {s \in [1..Cardinality(S) -> S] : \A i, j \in 1..Cardinality(S) : s[i] = s[j] => i = j}

\* ---- Graph.Label.DOM.hideLabel ------------------------------------------
\* $.splat(node): a single node becomes a one-element array
splat(node) == IF node.array THEN node.items ELSE <<node.item>>

\* the loop body without the "if (lab)" test: lab.style on null raises
RECURSIVE hideLabelEach_NoNullTest(_, _, _)
hideLabelEach_NoNullTest(nodes, R, st) ==
  IF nodes = <<>> THEN [st |-> R, threw |-> FALSE]
  ELSE LET g == getLabel(R, Head(nodes)) IN
       IF g.ret = Null THEN [st |-> g.st, threw |-> TRUE]
       ELSE hideLabelEach_NoNullTest(Tail(nodes),
                                     [g.st EXCEPT !.elems[g.ret].display = st], st)

RECURSIVE hideLabelEach(_, _, _)
hideLabelEach(nodes, R, st) ==
  IF nodes = <<>> THEN [st |-> R, threw |-> FALSE]
  ELSE LET g == getLabel(R, Head(nodes))
           R1 == IF g.ret # Null THEN [g.st EXCEPT !.elems[g.ret].display = st] ELSE g.st
       IN hideLabelEach(Tail(nodes), R1, st)

hideLabel(R, node, show) ==
  hideLabelEach(splat(node), R, IF show THEN "" ELSE "none")

\* ---- Graph.Label.DOM.fitsInCanvas ---------------------------------------
\* the upper bounds compared with > instead of >=
fitsInCanvas_ClosedUpper(pos, size) ==
  IF pos[1] > size[1] \/ pos[1] < 0 \/ pos[2] > size[2] \/ pos[2] < 0 THEN FALSE ELSE TRUE

fitsInCanvas(pos, size) ==
  IF pos[1] >= size[1] \/ pos[1] < 0 \/ pos[2] >= size[2] \/ pos[2] < 0 THEN FALSE ELSE TRUE


clearLabels(R, force, order, G) == clearLabelsLoop(order, R, force, G)

\* ---- Graph.Label.Native ---------------------------------------------------
\* The Native class has no fields.  X is the context and the fillText calls
\* made so far by the call under way: [ctx, draws].  A draw records the text,
\* x, twice y (y is pos.y + height / 2, a multiple of one half) and the draw
\* state at the moment of the call.
fillText(X, text, x, y2) ==
  [X EXCEPT !.draws = Append(@, [text |-> text, x |-> x, y2 |-> y2, ctx |-> X.ctx])]

\* renderLabel that draws at the node's position
renderLabel_AtNodePosition(X, node) ==
  fillText(X, node.name, node.pos[1], 2 * node.pos[2])

\* Graph.Label.Native.renderLabel
renderLabel(X, node) ==
  fillText(X, node.name, node.pos[1], 2 * node.pos[2] + node.height)

\* Graph.Label.Native.plotLabel
plotLabelNative(X, node) ==
  LET X1 == [X EXCEPT !.ctx.font = node.style \o " " \o ToString(node.size)
                                     \o "px " \o node.family]
      X2 == [X1 EXCEPT !.ctx.textAlign = node.textAlign]
      X3 == [X2 EXCEPT !.ctx.strokeStyle = node.color]
      X4 == [X3 EXCEPT !.ctx.fillStyle = node.color]
      X5 == [X4 EXCEPT !.ctx.textBaseline = node.textBaseline]
  IN renderLabel(X5, node)

\* $.empty: Graph.Label.Native.prepareForAnimation, hideLabel and hideLabels
empty(X) == X

\* ---- the state machine --------------------------------------------------
\* node arguments of hideLabel: one node, or an array of up to MaxNodes nodes
SingleNodes == {[array |-> FALSE, item |-> id, items |-> <<>>] : id \in Ids}

NodeArrays == {[array |-> TRUE, item |-> 0, items |-> s] :
                 s \in UNION {[1..n -> Ids] : n \in 0..MaxNodes}}

NodeArgs == SingleNodes \cup NodeArrays

Coords == -1..(MaxCoord + 1)
Sizes == 0..MaxCoord

\* After construction: labelsHidden false, labelContainer false, labels {}.
\* The page may already hold elements whose ids are node ids (pre-authored
\* labels); they live in the document, outside the label container.
Init ==
  /\ variant \in {"HTML", "SVG"}
  /\ docHasContainer \in BOOLEAN
  /\ \E ext \in SUBSET Ids :
       elems = [u \in Uids |->
                  IF u \in ext
                    THEN [Unused EXCEPT !.id = u, !.origin = "external",
                                        !.parent = "other"]
                    ELSE Unused]
  /\ labels = [id \in Ids |-> Absent]
  /\ labelContainer = NoContainer
  /\ containerDisplay = ""
  /\ labelsHidden = FALSE
  /\ ctx = NewCtx
  /\ anim = [u \in {} |-> Untouched]
  /\ op = NoOp

\* An element that is neither in the document nor referenced by this.labels
\* is unreachable: the collector reclaims it.
collect(R) ==
  LET dead == {u \in Uids : R.elems[u].parent = "none" /\ \A id \in Ids : R.labels[id] # u}
  IN [R EXCEPT !.elems = [u \in Uids |-> IF u \in dead THEN Unused ELSE @[u]],
               !.anim = [u \in DOMAIN @ \ dead |-> @[u]]]

\* onCreateLabel invocations made while the state went from R0 to R1
RECURSIVE hookCallsUpTo(_, _, _)
hookCallsUpTo(u, E0, E1) ==
  IF u = 0 THEN 0 ELSE (E1[u].hooks - E0[u].hooks) + hookCallsUpTo(u - 1, E0, E1)

hookCalls(R0, R1) == hookCallsUpTo(MaxUid, R0.elems, R1.elems)

\* elements a call took out of the document
detachedBy(R0, R1) ==
  {u \in Uids : R0.elems[u].parent # "none" /\ R1.elems[u].parent = "none"}

Become(R) ==
  /\ \E C \in {collect(R)} : labels' = C.labels /\ elems' = C.elems /\ anim' = C.anim
  /\ labelContainer' = R.labelContainer
  /\ containerDisplay' = R.containerDisplay
  /\ labelsHidden' = R.labelsHidden

GetLabelContainer ==
  \E r \in {getLabelContainer(Cur)} :
  /\ Become(r.st)
  /\ op' = [NoOp EXCEPT !.name = "getLabelContainer",
                        !.ret = IF r.ret = "container" THEN 1 ELSE Null,
                        !.lookups = r.st.lookups]
  /\ UNCHANGED <<variant, docHasContainer, ctx>>

GetLabel(id) ==
  \E r \in {getLabel(Cur, id)} :
  /\ Become(r.st)
  /\ op' = [NoOp EXCEPT !.name = "getLabel", !.id = id, !.ret = r.ret]
  /\ UNCHANGED <<variant, docHasContainer, ctx>>

GetOrCreateLabel(id) ==
  /\ needsCreate(Cur, id) => canCreate(elems, id)
  /\ \E r \in {getOrCreateLabel(Cur, id)} :
     /\ Become(r.st)
     /\ op' = [NoOp EXCEPT !.name = "getOrCreateLabel", !.id = id, !.ret = r.ret,
                           !.threw = r.threw, !.hooks = hookCalls(Cur, r.st),
                           !.lookups = r.st.lookups]
  /\ UNCHANGED <<variant, docHasContainer, ctx>>

PlotLabel(id) ==
  /\ needsCreate(Cur, id) => canCreate(elems, id)
  /\ \E r \in {plotLabel(Cur, id)} :
     /\ Become(r.st)
     /\ op' = [NoOp EXCEPT !.name = "plotLabel", !.id = id, !.ret = r.ret,
                           !.threw = r.threw, !.hooks = hookCalls(Cur, r.st),
                           !.lookups = r.st.lookups]
  /\ UNCHANGED <<variant, docHasContainer, ctx>>

PrepareForAnimation(node, opt, useCSS3) ==
  /\ (variant = "HTML" /\ useCSS3 /\ needsCreate(Cur, node.id)) => canCreate(elems, node.id)
  /\ \E r \in {prepareForAnimation(Cur, node, canvasSize, opt, useCSS3)} :
     /\ \A u \in DOMAIN r.st.anim : r.st.anim[u].wteMade <= MaxWte
     /\ Become(r.st)
     /\ op' = [NoOp EXCEPT !.name = "prepareForAnimation", !.id = node.id,
                           !.arg = useCSS3, !.args = <<node, opt>>,
                           !.ret = r.ret, !.threw = r.threw,
                           !.hooks = hookCalls(Cur, r.st), !.lookups = r.st.lookups,
                           !.animHooks = r.st.animHooks]
  /\ UNCHANGED <<variant, docHasContainer, ctx>>

\* The browser dispatches the event p + 'TransitionEnd' on element u, which
\* has a transition configured: the listeners registered for it run.
TransitionEnd(u, p) ==
  /\ elems[u].origin # "unused"
  /\ animOf(anim, u).style.transition[""].property # ""
  /\ \E r \in {dispatch(animOf(anim, u), animOf(anim, u).listeners[p])} :
     /\ Become(setAnim(Cur, u, r))
     /\ op' = [NoOp EXCEPT !.name = "TransitionEnd", !.id = elems[u].id, !.ret = u,
                           !.evt = p, !.fired = animOf(anim, u).listeners[p]]
  /\ UNCHANGED <<variant, docHasContainer, ctx>>

HideLabels(hide) ==
  \E r \in {hideLabels(Cur, hide)} :
  /\ Become(r.st)
  /\ op' = [NoOp EXCEPT !.name = "hideLabels", !.arg = hide, !.threw = r.threw,
                        !.before = labelsHidden, !.lookups = r.st.lookups]
  /\ UNCHANGED <<variant, docHasContainer, ctx>>

\* G: the cached ids for which viz.graph.hasNode answers true when the sweep
\* runs (the graph is the graph model's; it is asked about cached ids only,
\* and not at all when force is set)
ClearLabels(force, G) ==
  /\ \E r \in {clearLabels(Cur, force, order, G) : order \in Orders(keys(labels))} :
       /\ Become(r.st)
       /\ op' = [NoOp EXCEPT !.name = "clearLabels", !.arg = force, !.nodes = G,
                             !.threw = r.threw,
                             !.removed = keys(labels) \ keys(r.st.labels),
                             !.detached = detachedBy(Cur, r.st)]
  /\ UNCHANGED <<variant, docHasContainer, ctx>>

DisposeLabel(id) ==
  \E r \in {disposeLabel(Cur, id)} :
  /\ Become(r.st)
  /\ op' = [NoOp EXCEPT !.name = "disposeLabel", !.id = id, !.threw = r.threw,
                        !.detached = detachedBy(Cur, r.st)]
  /\ UNCHANGED <<variant, docHasContainer, ctx>>

HideLabel(node, show) ==
  \E r \in {hideLabel(Cur, node, show)} :
  /\ Become(r.st)
  /\ op' = [NoOp EXCEPT !.name = "hideLabel", !.nodes = Range(splat(node)),
                        !.many = Len(splat(node)) > 1, !.arg = show, !.threw = r.threw]
  /\ UNCHANGED <<variant, docHasContainer, ctx>>

FitsInCanvas(pos, size) ==
  /\ op' = [NoOp EXCEPT !.name = "fitsInCanvas", !.pos = pos, !.size = size,
                        !.arg = fitsInCanvas(pos, size)]
  /\ UNCHANGED <<variant, docHasContainer, labels, elems, labelContainer,
                 containerDisplay, labelsHidden, ctx, anim>>

\* Every operation of a retained renderer.  prepareForAnimation is called
\* here for nodes at rest; the animations of a label are followed in SpecAnim.
Next ==
  \/ GetLabelContainer
  \/ \E id \in Ids : GetLabel(id)
  \/ \E id \in Ids : GetOrCreateLabel(id)
  \/ \E id \in Ids : PlotLabel(id)
  \/ \E id \in Ids, useCSS3 \in BOOLEAN :
        PrepareForAnimation(RestNode(id), [duration |-> 500], useCSS3)
  \/ \E hide \in BOOLEAN : HideLabels(hide)
  \/ \E G \in SUBSET keys(labels) : ClearLabels(FALSE, G)
  \/ ClearLabels(TRUE, {})
  \/ \E id \in Ids : DisposeLabel(id)
  \/ \E node \in SingleNodes, show \in BOOLEAN : HideLabel(node, show)

Spec == Init /\ [][Next]_vars

\* fitsInCanvas applied in the states a renderer reaches by hiding and
\* showing the container
NextFits ==
  \/ \E pos \in Coords \X Coords, size \in Sizes \X Sizes : FitsInCanvas(pos, size)
  \/ \E hide \in BOOLEAN : HideLabels(hide)

SpecFits == Init /\ [][NextFits]_vars

\* hideLabel with every shape of its node argument, in the states reached by
\* creating, disposing and clearing labels and hiding the container
NextHide ==
  \/ \E node \in NodeArgs, show \in BOOLEAN : HideLabel(node, show)
  \/ \E id \in Ids : GetOrCreateLabel(id)
  \/ \E id \in Ids : DisposeLabel(id)
  \/ ClearLabels(TRUE, {})
  \/ \E hide \in BOOLEAN : HideLabels(hide)

SpecHide == Init /\ [][NextHide]_vars

\* One label of an HTML renderer prepared for animations of alpha, position
\* and dimensions, and its transitions ending.  prepareForAnimation touches
\* the label of the node it is given and no other, so one node is followed.
AnimIds == {1}
Alphas == {0, 5, 10}
AnimGeometries ==
  {[posStart |-> <<0, 0>>, pos |-> <<0, 0>>,
    startWidth |-> 1, endWidth |-> 1, startHeight |-> 1, endHeight |-> 1],
   [posStart |-> <<0, 0>>, pos |-> <<1, -2>>,
    startWidth |-> 1, endWidth |-> 2, startHeight |-> 1, endHeight |-> 1]}
AnimNodes ==
  {[id |-> id, alpha |-> a, alphaEnd |-> e, posStart |-> g.posStart, pos |-> g.pos,
    startWidth |-> g.startWidth, endWidth |-> g.endWidth,
    startHeight |-> g.startHeight, endHeight |-> g.endHeight] :
      id \in AnimIds, a \in Alphas, e \in {0, 10}, g \in AnimGeometries}
AnimOpts == {[duration |-> 500]}

InitAnim ==
  /\ variant = "HTML"
  /\ docHasContainer \in BOOLEAN
  /\ \E ext \in SUBSET AnimIds :
       elems = [u \in Uids |->
                  IF u \in ext
                    THEN [Unused EXCEPT !.id = u, !.origin = "external",
                                        !.parent = "other"]
                    ELSE Unused]
  /\ labels = [id \in Ids |-> Absent]
  /\ labelContainer = NoContainer
  /\ containerDisplay = ""
  /\ labelsHidden = FALSE
  /\ ctx = NewCtx
  /\ anim = [u \in {} |-> Untouched]
  /\ op = NoOp

NextAnim ==
  \/ \E node \in AnimNodes, opt \in AnimOpts, useCSS3 \in BOOLEAN :
        PrepareForAnimation(node, opt, useCSS3)
  \/ \E u \in Uids, p \in Range(prefixes) : TransitionEnd(u, p)

SpecAnim == InitAnim /\ [][NextAnim]_vars

\* The Native renderer: labels drawn on the canvas, nothing retained.
NativeNodes ==
  {[name |-> n, pos |-> pos, height |-> h, style |-> st, size |-> sz,
    family |-> "sans-serif", color |-> c, textAlign |-> ta, textBaseline |-> "middle"] :
      n \in {"Alpha", "Beta"}, pos \in {<<10, 20>>, <<-1, 0>>},
      h \in {0, 1}, st \in {"normal", "bold"}, sz \in {12},
      c \in {"#fff", "#23A4FF"}, ta \in {"center", "left"}}

InitNative ==
  /\ variant = "Native"
  /\ docHasContainer \in BOOLEAN
  /\ elems = [u \in Uids |-> Unused]
  /\ labels = [id \in Ids |-> Absent]
  /\ labelContainer = NoContainer
  /\ containerDisplay = ""
  /\ labelsHidden = FALSE
  /\ ctx = NewCtx
  /\ anim = [u \in {} |-> Untouched]
  /\ op = NoOp

\* the frame of a Native call: the context is all it can touch
NativeCall(name, X, args, arg) ==
  /\ ctx' = X.ctx
  /\ op' = [NoOp EXCEPT !.name = name, !.draws = X.draws, !.args = args, !.arg = arg]
  /\ UNCHANGED <<variant, docHasContainer, labels, elems, labelContainer,
                 containerDisplay, labelsHidden, anim>>

NativePlotLabel(node) ==
  NativeCall("plotLabel", plotLabelNative([ctx |-> ctx, draws |-> <<>>], node), <<node>>, FALSE)

NativePrepareForAnimation(node) ==
  NativeCall("prepareForAnimation", empty([ctx |-> ctx, draws |-> <<>>]), <<node>>, FALSE)

NativeHideLabel(node, show) ==
  NativeCall("hideLabel", empty([ctx |-> ctx, draws |-> <<>>]), <<node>>, show)

NativeHideLabels(hide) ==
  NativeCall("hideLabels", empty([ctx |-> ctx, draws |-> <<>>]), <<>>, hide)

NextNative ==
  \/ \E node \in NativeNodes : NativePlotLabel(node)
  \/ \E node \in NativeNodes : NativePrepareForAnimation(node)
  \/ \E node \in NativeNodes, show \in BOOLEAN : NativeHideLabel(node, show)
  \/ \E hide \in BOOLEAN : NativeHideLabels(hide)

SpecNative == InitNative /\ [][NextNative]_vars


\* ---- properties ---------------------------------------------------------
rvars == <<labels, elems, labelContainer, containerDisplay, labelsHidden, anim>>

CreateOps == {"getOrCreateLabel", "plotLabel"}

\* the calls that reach getOrCreateLabel
HookOps == CreateOps \cup {"prepareForAnimation"}

\* C1  Identity stability: a getOrCreateLabel/plotLabel call that returns
\* leaves the returned element cached under the node's id, and from then on
\* every step other than a clearLabels removal of that id keeps the same
\* element instance under the id, and every later getOrCreateLabel/plotLabel
\* for the id returns that instance.
C1_IdentityStability ==
  /\ [](op.name \in CreateOps /\ ~op.threw => op.ret \in Uids /\ labels[op.id] = op.ret)
  /\ [][\A id \in Ids :
          (labels[id] \in Uids /\ ~(op'.name = "clearLabels" /\ id \in op'.removed))
            => /\ labels'[id] = labels[id]
               /\ (op'.name \in CreateOps /\ op'.id = id
                     => ~op'.threw /\ op'.ret = labels[id])]_vars

\* a plotLabel returned an element that had been hidden by hideLabel since
\* it was created
C1_Witness ==
  /\ op.name = "plotLabel" /\ ~op.threw /\ op.ret \in Uids
  /\ elems[op.ret].origin = "renderer" /\ elems[op.ret].display = "none"

\* C2  Creation hook exactly-once: every element the renderer created has
\* had onCreateLabel invoked exactly once and a pre-authored element never;
\* the count of an existing element never changes; a call invokes the hook
\* at most once, only getOrCreateLabel/plotLabel/prepareForAnimation do, and
\* only when the id had no cached element and no element in the document.
C2_HookExactlyOnce ==
  /\ [](\A u \in Uids : /\ elems[u].origin = "renderer" => elems[u].hooks = 1
                        /\ elems[u].origin = "external" => elems[u].hooks = 0)
  /\ [](op.hooks > 0 => op.name \in HookOps /\ op.hooks = 1)
  /\ [][/\ \A u \in Uids : (elems[u].origin # "unused" /\ elems'[u].origin # "unused")
                              => elems'[u].hooks = elems[u].hooks
        /\ op'.hooks > 0 => /\ labels[op'.id] \notin Uids
                            /\ getElementById(elems, op'.id) = Null]_vars

\* a repeated plotLabel on an element the renderer created: no hook call in
\* this call, one in the element's life
C2_Witness ==
  /\ op.name = "plotLabel" /\ ~op.threw /\ op.hooks = 0 /\ op.ret \in Uids
  /\ elems[op.ret].origin = "renderer" /\ elems[op.ret].hooks = 1

\* C3  plotLabel postcondition (as claimed): with a resolvable container
\* and no pre-authored element for the id, after plotLabel the id's element
\* is cached and attached under the container.
C3_PlotLabelAttaches ==
  (/\ op.name = "plotLabel"
   /\ docHasContainer
   /\ \A u \in Uids : ~(elems[u].origin = "external" /\ elems[u].id = op.id))
  => /\ ~op.threw
     /\ labels[op.id] \in Uids
     /\ elems[labels[op.id]].parent = "container"

\* C6  Cache invariant (as claimed): no cache entry holds an element that
\* is detached.
C6_NoDanglingCached ==
  \A id \in Ids : labels[id] \in Uids => elems[labels[id]].parent # "none"


\* the element an id resolves to: the cached one, else the one in the document
resolved(id) == IF labels[id] \in Uids THEN labels[id] ELSE getElementById(elems, id)

\* C4  Non-forced sweep: clearLabels(false) removes exactly the cache
\* entries whose id is not a node of the graph; the element of every removed
\* id is detached; every other entry, every other element and the container
\* are unchanged.
C4_SweepRemovesExactlyAbsentNodes ==
  [][(op'.name = "clearLabels" /\ ~op'.arg) =>
       LET G == op'.nodes
           gone == {id \in keys(labels) : ~hasNode(G, id)}
       IN /\ ~op'.threw
          /\ keys(labels') = keys(labels) \ gone
          /\ \A id \in keys(labels') : hasNode(G, id) /\ labels'[id] = labels[id]
          /\ \A id \in gone : resolved(id) # Null => elems'[resolved(id)].parent = "none"
          /\ \A u \in Uids : u \notin {resolved(id) : id \in gone} => elems'[u] = elems[u]
          /\ UNCHANGED <<labelContainer, containerDisplay, labelsHidden>>]_vars

\* a sweep that removed an entry and detached its element, and kept another
\* entry whose element is attached
C4_Witness ==
  /\ op.name = "clearLabels" /\ ~op.arg
  /\ op.removed # {} /\ op.detached # {}
  /\ \E id \in Ids : labels[id] \in Uids /\ elems[labels[id]].parent = "container"

\* C5  Forced clear: after clearLabels(true) the cache is empty and no
\* element the renderer created is attached under the container.
C5_ForcedClearEmpties ==
  (op.name = "clearLabels" /\ op.arg)
  => /\ ~op.threw
     /\ keys(labels) = {}
     /\ \A u \in Uids : elems[u].origin = "renderer" => elems[u].parent # "container"

\* a forced clear that detached an element and also removed an entry that
\* had nothing left to detach (a null entry or an id disposed earlier)
C5_Witness ==
  /\ op.name = "clearLabels" /\ op.arg
  /\ op.detached # {}
  /\ Cardinality(op.removed) > Cardinality(op.detached)

\* C7  Disposal is defensive (as claimed): disposeLabel(id) with no cached
\* element and no element in the document raises nothing and leaves the
\* cache with the same keys and values.
C7_DisposeUnknownKeepsCache ==
  [][\A id \in Ids :
       (op'.name = "disposeLabel" /\ op'.id = id /\ labels[id] \notin Uids
          /\ getElementById(elems, id) = Null)
       => ~op'.threw /\ labels' = labels]_vars

\* C7 (amended)  disposeLabel(id) with no cached element and no element in
\* the document raises nothing, changes no element, no other cache entry and
\* not the container; the entry of id itself becomes a null entry.  On a
\* cached element that is already detached it raises nothing and changes
\* nothing.
C7_DisposeUnknownMemoizesNull ==
  [][\A id \in Ids :
       /\ (op'.name = "disposeLabel" /\ op'.id = id /\ labels[id] \notin Uids
             /\ getElementById(elems, id) = Null)
          => /\ ~op'.threw
             /\ labels' = [labels EXCEPT ![id] = Null]
             /\ UNCHANGED <<elems, labelContainer, containerDisplay, labelsHidden>>
       /\ (op'.name = "disposeLabel" /\ op'.id = id /\ labels[id] \in Uids
             /\ elems[labels[id]].parent = "none")
          => ~op'.threw /\ UNCHANGED rvars]_vars

\* disposeLabel of an unknown id has run: the id now has a null entry
C7_Witness ==
  /\ op.name = "disposeLabel" /\ ~op.threw /\ op.detached = {}
  /\ labels[op.id] = Null

\* C8  hideLabel on uncached ids (as claimed): raises nothing and leaves
\* the whole renderer state unchanged.
C8_HideUncachedChangesNothing ==
  [][(op'.name = "hideLabel" /\ \A id \in op'.nodes : labels[id] \notin Uids)
       => ~op'.threw /\ UNCHANGED rvars]_vars

\* C8 (amended)  hideLabel on ids that have no cached element and no
\* element in the document raises nothing and changes no element's
\* visibility, not the container and not labelsHidden; in the cache it only
\* records a null entry for each of these ids.
C8_HideUnknownMemoizesNull ==
  [][(op'.name = "hideLabel"
        /\ \A id \in op'.nodes : labels[id] \notin Uids /\ getElementById(elems, id) = Null)
       => /\ ~op'.threw
          /\ labels' = [id \in Ids |-> IF id \in op'.nodes THEN Null ELSE labels[id]]
          /\ UNCHANGED <<elems, labelContainer, containerDisplay, labelsHidden>>]_vars

\* hideLabel has run on an array of two different unknown ids
C8_Witness ==
  /\ op.name = "hideLabel" /\ ~op.threw /\ op.many /\ Cardinality(op.nodes) = 2
  /\ \A id \in op.nodes : labels[id] = Null /\ getElementById(elems, id) = Null

\* C9  Visibility toggle: a hideLabels(hide) call that returns leaves the
\* container hidden exactly when hide is true and labelsHidden equal to
\* hide, whatever the state before (so a second hideLabels(true) gives the
\* state of the first and hideLabels(false) restores the visible state); it
\* raises only when the container does not resolve, and no other operation
\* changes the container's visibility or labelsHidden.
C9_HideLabelsToggle ==
  /\ [](op.name = "hideLabels" =>
          /\ op.threw <=> ~docHasContainer
          /\ ~op.threw => /\ containerDisplay = (IF op.arg THEN "none" ELSE "")
                          /\ labelsHidden = op.arg)
  /\ []((containerDisplay = "none") <=> labelsHidden)
  /\ [][op'.name # "hideLabels" => UNCHANGED <<containerDisplay, labelsHidden>>]_vars

\* hideLabels(false) has restored the visible state after hideLabels(true)
C9_Witness ==
  /\ op.name = "hideLabels" /\ ~op.threw /\ ~op.arg /\ op.before
  /\ containerDisplay = "" /\ ~labelsHidden

\* C10  Bounds check: fitsInCanvas is true exactly when 0 <= x < width and
\* 0 <= y < height, and the call changes nothing in the renderer.
C10_FitsInCanvasHalfOpen ==
  /\ [](op.name = "fitsInCanvas" =>
          (op.arg <=> /\ 0 <= op.pos[1] /\ op.pos[1] < op.size[1]
                      /\ 0 <= op.pos[2] /\ op.pos[2] < op.size[2]))
  /\ [][op'.name = "fitsInCanvas" => UNCHANGED rvars]_vars

\* a point on the lower bounds and one short of the upper bounds is inside
C10_Witness ==
  /\ op.name = "fitsInCanvas" /\ op.arg
  /\ op.pos[1] = 0 /\ op.pos[2] = op.size[2] - 1 /\ op.size[2] > 1


\* C11  Container memoization (as claimed): once the container has been
\* resolved for the first time, found or not, no later call performs the
\* lookup again.
C11_ContainerResolvedOnce ==
  [][labelContainer # NoContainer => op'.lookups = 0]_vars


\* C15  Creation ordering (as claimed): whenever onCreateLabel has been
\* invoked for an element, the element it received already had its id and
\* the class "node", was already attached under the container, and was not
\* yet in this.labels.
C15_HookSeesAttachedElement ==
  \A u \in Uids :
    elems[u].hooks > 0 => elems[u].atHook = {"id", "class", "attached"}

\* ---- animation (SpecAnim) -------------------------------------------------
\* the label the last call worked on
opLabel == labels[op.id]

\* C12  Supersession (as claimed): a transition completion hides an element
\* only if the most recent prepareForAnimation that requested a transition
\* for it had start opacity 1 and end opacity 0.
C12_CompletionHidesOnlyLatestFadeOut ==
  [][\A u \in Uids :
       (op'.name = "TransitionEnd" /\ op'.ret = u /\ op'.fired # {}
          /\ animOf(anim', u).style.visibility = "hidden")
         => animOf(anim, u).last = <<10, 0>>]_vars

\* C13  Idempotence (as claimed): a prepareForAnimation call that repeats
\* the call before it (same node, same start and end state, same options)
\* leaves the label's style and the listeners registered on it as they were.
C13_PrepareTwiceSameAsOnce ==
  [][(/\ op.name = "prepareForAnimation" /\ ~op.threw
      /\ op'.name = "prepareForAnimation"
      /\ op'.args = op.args /\ op'.arg = op.arg
      /\ labels'[op'.id] \in Uids)
       => /\ animOf(anim', labels'[op'.id]).style = animOf(anim, labels'[op'.id]).style
          /\ animOf(anim', labels'[op'.id]).listeners
               = animOf(anim, labels'[op'.id]).listeners]_vars

\* C16  A wte closure runs at most once: the closures a TransitionEnd event
\* runs have not run before, and after it they listen on no prefix's event;
\* a closure that has run is never registered; and prepareForAnimation
\* registers a closure exactly when it configures a label with end opacity 0
\* and start opacity 1, on every prefix's event.
C16_CleanupFiresOnce ==
  /\ [][op'.name = "TransitionEnd"
          => /\ op'.fired \cap animOf(anim, op'.ret).ran = {}
             /\ op'.fired \subseteq animOf(anim', op'.ret).ran
             /\ \A p \in Range(prefixes) :
                  animOf(anim', op'.ret).listeners[p]
                    = animOf(anim, op'.ret).listeners[p] \ op'.fired]_vars
  /\ [](\A u \in DOMAIN anim, p \in Range(prefixes) :
          anim[u].listeners[p] \cap anim[u].ran = {})
  /\ [][op'.name = "prepareForAnimation"
          => \A u \in Uids :
               IF /\ u = labels'[op'.id] /\ op'.arg /\ ~op'.threw
                  /\ op'.args[1].alphaEnd = 0 /\ op'.args[1].alpha = 10
                 THEN \A p \in Range(prefixes) :
                        animOf(anim', u).listeners[p]
                          = animOf(anim, u).listeners[p] \cup {animOf(anim', u).wteMade}
                 ELSE animOf(anim', u).listeners = animOf(anim, u).listeners]_vars

\* a transition-end event arrives at an element whose cleanup has already
\* run, on another prefix's event, and runs nothing
C16_Witness ==
  /\ op.name = "TransitionEnd" /\ op.fired = {} /\ op.evt = "moz"
  /\ animOf(anim, op.ret).ran # {}
  /\ animOf(anim, op.ret).style.visibility = "hidden"

\* C17  With useCSS3 a prepareForAnimation call on the HTML renderer that
\* returns has invoked onBeforeAnimateLabel exactly once, with the node's
\* label, and the element the hook received was as the call leaves it (all
\* configuration written); the call raises only when the label had to be
\* created and there is no container.  Without useCSS3 the call changes no
\* state, creates no element and invokes no hook.
C17_HookOnceAfterConfiguration ==
  [][op'.name = "prepareForAnimation"
       => IF op'.arg
            THEN \/ /\ op'.threw /\ ~docHasContainer /\ op'.animHooks = <<>>
                 \/ /\ ~op'.threw
                    /\ Len(op'.animHooks) = 1
                    /\ op'.animHooks[1].label = labels'[op'.id]
                    /\ op'.animHooks[1].was = animOf(anim', labels'[op'.id])
            ELSE /\ rvars' = rvars
                 /\ op'.animHooks = <<>> /\ op'.hooks = 0 /\ ~op'.threw]_vars

\* the hook has been invoked once by a call that configured an opacity
\* transition
C17_Witness ==
  /\ op.name = "prepareForAnimation" /\ op.arg /\ ~op.threw
  /\ op.args[1].alpha # op.args[1].alphaEnd
  /\ Len(op.animHooks) = 1
  /\ op.animHooks[1].was.style.transition[""].property = "opacity"

\* C18  Branch exclusivity (useCSS3): when start and end opacity differ the
\* label is made visible, every prefix's transition-property is "opacity"
\* and top, left, width and height stay as they were, whatever the geometry
\* does; when they are equal visibility and opacity stay as they were, and
\* position and size are written exactly when the geometry changes.
C18_BranchesExclusive ==
  [][(op'.name = "prepareForAnimation" /\ op'.arg /\ ~op'.threw)
       => LET old == animOf(anim, labels'[op'.id]).style
              new == animOf(anim', labels'[op'.id]).style
              box(S) == <<S.top, S.left, S.width, S.height>>
          IN IF op'.args[1].alpha # op'.args[1].alphaEnd
               THEN /\ new.visibility = "visible"
                    /\ new.opacity = String(op'.args[1].alphaEnd)
                    /\ \A p \in Range(prefixesStyles) :
                         new.transition[p].property = "opacity"
                    /\ box(new) = box(old)
               ELSE /\ new.visibility = old.visibility
                    /\ new.opacity = old.opacity
                    /\ IF geometryChanges(op'.args[1])
                         THEN /\ \A p \in Range(prefixesStyles) :
                                   new.transition[p].property
                                     = "width,height,top,left,color,opacity"
                              /\ new.width = ToString(op'.args[1].endWidth) \o "px"
                              /\ new.height = ToString(op'.args[1].endHeight) \o "px"
                         ELSE /\ new.transition = old.transition
                              /\ box(new) = box(old)]_vars

\* an opacity transition was prepared for a node that also moves, after a
\* position transition had placed its label
C18_Witness ==
  /\ op.name = "prepareForAnimation" /\ op.arg /\ ~op.threw
  /\ op.args[1].alpha # op.args[1].alphaEnd /\ geometryChanges(op.args[1])
  /\ opLabel \in Uids
  /\ animOf(anim, opLabel).style.top = "0px" /\ animOf(anim, opLabel).style.left = "3px"
  /\ animOf(anim, opLabel).style.transition[""].property = "opacity"


\* ---- Native (SpecNative) --------------------------------------------------
\* C14  The Native variant is stateless.  plotLabel makes exactly one
\* fillText call: node.name at x = pos.x, y = pos.y + height / 2, made with
\* font, textAlign, fillStyle, strokeStyle and textBaseline already set from
\* the node's label data; what it draws and the draw state it leaves depend
\* on the node alone, not on any earlier call.  prepareForAnimation,
\* hideLabel and hideLabels draw nothing and change nothing.  No call
\* touches any renderer field.
C14_NativeStateless ==
  /\ [][op'.name = "plotLabel"
          => LET node == op'.args[1]
                 state == [font |-> node.style \o " " \o ToString(node.size)
                                      \o "px " \o node.family,
                           textAlign |-> node.textAlign, fillStyle |-> node.color,
                           strokeStyle |-> node.color,
                           textBaseline |-> node.textBaseline]
             IN /\ op'.draws = <<[text |-> node.name, x |-> node.pos[1],
                                  y2 |-> 2 * node.pos[2] + node.height,
                                  ctx |-> state]>>
                /\ ctx' = state]_vars
  /\ [][op'.name \in {"prepareForAnimation", "hideLabel", "hideLabels"}
          => op'.draws = <<>> /\ ctx' = ctx]_vars
  /\ [][rvars' = rvars]_vars

\* plotLabel has drawn "Alpha" at (10, 20 + 1/2) in bold 12px, in white
C14_Witness ==
  /\ op.name = "plotLabel" /\ Len(op.draws) = 1
  /\ op.draws[1].text = "Alpha" /\ op.draws[1].x = 10 /\ op.draws[1].y2 = 41
  /\ op.draws[1].ctx.font = "bold 12px sans-serif"
  /\ ctx.fillStyle = "#fff"


\* ---- visibility levels and disposal ---------------------------------------
\* C19  Independence of the two visibility levels.  hideLabel(nodes, show)
\* raises nothing, writes the display of exactly the labels of the given
\* nodes (the elements getLabel resolves for their ids), changes nothing
\* else of any element (none is detached), removes or replaces no cache
\* entry, and leaves the container, its display and labelsHidden alone.
\* hideLabels(hide) leaves every element and the cache as they were, so each
\* label keeps its own display through hideLabels(true); hideLabels(false).
C19_VisibilityLevelsIndependent ==
  /\ [][op'.name = "hideLabel"
          => /\ ~op'.threw
             /\ \A u \in Uids :
                  elems'[u] = IF \E id \in op'.nodes : labels'[id] = u
                                THEN [elems[u] EXCEPT
                                        !.display = IF op'.arg THEN "" ELSE "none"]
                                ELSE elems[u]
             /\ \A id \in Ids :
                  (labels[id] \in Uids \/ id \notin op'.nodes) => labels'[id] = labels[id]
             /\ UNCHANGED <<labelContainer, containerDisplay, labelsHidden, anim>>]_vars
  /\ [][op'.name = "hideLabels" => elems' = elems /\ labels' = labels /\ anim' = anim]_vars

\* hideLabels(false) has followed hideLabels(true) while one cached label
\* is hidden by hideLabel and another is shown
C19_Witness ==
  /\ op.name = "hideLabels" /\ ~op.threw /\ ~op.arg /\ op.before
  /\ \E i, j \in Ids :
       /\ labels[i] \in Uids /\ elems[labels[i]].display = "none"
       /\ labels[j] \in Uids /\ elems[labels[j]].display = ""
       /\ elems[labels[i]].parent = "container" /\ elems[labels[j]].parent = "container"

\* C20  Disposal scope (as claimed): an element leaves its parent only if
\* that parent is the label container; a pre-authored element that is
\* elsewhere in the document is never removed.
C20_OnlyContainerChildrenDetached ==
  [][\A u \in Uids :
       (elems[u].parent # "none" /\ elems'[u].parent # elems[u].parent)
         => elems[u].parent = "container"]_vars

====
